---- MODULE Spec2Model ----
(***************************************************************************)
(* Model of the chat front end of open_deep_research: the conversation     *)
(* manager of ui/src/App.tsx, the submission controller and job poller of  *)
(* ui/src/components/chat.tsx (Chat) and the actions the sidebar offers    *)
(* (Sidebar, second half of chat.tsx).                                     *)
(*                                                                         *)
(* Text is a sequence of one-character strings, so that trim, slice,       *)
(* length and concatenation are computed as the code computes them.        *)
(* A handler closes over the values of the render it was created in: the   *)
(* addMessage a submission captured keeps reading the `chats` array of     *)
(* that render for as long as the poller runs.                             *)
(***************************************************************************)
EXTENDS Naturals, Integers, Sequences, FiniteSets, TLC

\* ------------------------------------------------------------------ bounds
\* the clock (Date.now(), in abstract ticks) runs from 0 to MaxClock
MaxClock == 1
\* at most MaxChats conversations are stored at once
MaxChats == 2
\* appendMessage is called directly at most MaxAppends times, on
\* conversations of fewer than MaxMessages messages (SpecApi)
MaxAppends == 3
MaxMessages == 2
\* at most MaxSubmits submissions run to their end in one behaviour, and no
\* more than MaxSubmits + 1 are ever accepted
MaxSubmits == 1
MaxStored == 3
MaxStoreClock == 2

\* ------------------------------------------------------- program constants
\* chat.tsx:87  const maxAttempts = 300
maxAttempts == 300
\* App.tsx:50   message.content.slice(0, 50), message.content.length > 50
TitleLimit == 50

\* null (currentChatId) and an absent or empty string
NULL == <<>>

\* ------------------------------------------------------------ text helpers
RECURSIVE Rep(_, _)
Rep(c, n) == IF n = 0 THEN <<>> ELSE <<c>> \o Rep(c, n - 1)

IsSpace(c) == c \in {" ", "\t", "\n"}

\* String.prototype.trim: drop leading and trailing white space
RECURSIVE TrimStart(_)
TrimStart(s) ==
    IF s = <<>> THEN <<>>
    ELSE IF IsSpace(Head(s)) THEN TrimStart(Tail(s)) ELSE s

RECURSIVE TrimEnd(_)
TrimEnd(s) ==
    IF s = <<>> THEN <<>>
    ELSE IF IsSpace(s[Len(s)]) THEN TrimEnd(SubSeq(s, 1, Len(s) - 1)) ELSE s

Trim(s) == TrimEnd(TrimStart(s))

\* String.prototype.slice(0, n)
Slice0(s, n) == SubSeq(s, 1, IF Len(s) < n THEN Len(s) ELSE n)

\* OrElse without the fallback: the first operand whatever it is
OrElse_NoDefault(a, b) == a

\* a || b on strings: the empty string is falsy
OrElse(a, b) == IF a = <<>> THEN b ELSE a

\* ---------------------------------------------------------------- literals
NewChatTitle ==
    <<"N", "e", "w", " ", "R", "e", "s", "e", "a", "r", "c", "h", " ", "S", "e", "s", "s", "i", "o", "n">>

Ellipsis ==
    <<".", ".", ".">>

StartingText ==
    <<"S", "t", "a", "r", "t", "i", "n", "g", " ", "r", "e", "s", "e", "a", "r", "c", "h", ".", ".", ".">>

ResearchingText ==
    <<"R", "e", "s", "e", "a", "r", "c", "h", "i", "n", "g", ".", ".", ".">>

TimeoutText ==
    <<"R", "e", "s", "e", "a", "r", "c", "h", " ", "i", "s", " ", "t", "a", "k", "i", "n", "g", " ", "l", "o", "n", "g", "e", "r", " ", "t", "h", "a", "n", " ", "e", "x", "p", "e", "c", "t", "e", "d", ".", " ", "P", "l", "e", "a", "s", "e", " ", "t", "r", "y", " ", "a", "g", "a", "i", "n", " ", "w", "i", "t", "h", " ", "a", " ", "m", "o", "r", "e", " ", "s", "p", "e", "c", "i", "f", "i", "c", " ", "q", "u", "e", "r", "y", ".">>

NoReportText ==
    <<"R", "e", "s", "e", "a", "r", "c", "h", " ", "c", "o", "m", "p", "l", "e", "t", "e", "d", " ", "b", "u", "t", " ", "n", "o", " ", "r", "e", "p", "o", "r", "t", " ", "w", "a", "s", " ", "g", "e", "n", "e", "r", "a", "t", "e", "d", ".">>

ResearchFailedPrefix ==
    <<"R", "e", "s", "e", "a", "r", "c", "h", " ", "f", "a", "i", "l", "e", "d", ":", " ">>

UnknownErrorOccurred ==
    <<"U", "n", "k", "n", "o", "w", "n", " ", "e", "r", "r", "o", "r", " ", "o", "c", "c", "u", "r", "r", "e", "d">>

\* StatusErrorPrefix worded as the job-reported failure is
StatusErrorPrefix_AsFailed == ResearchFailedPrefix

StatusErrorPrefix ==
    <<"E", "r", "r", "o", "r", " ", "c", "h", "e", "c", "k", "i", "n", "g", " ", "r", "e", "s", "e", "a", "r", "c", "h", " ", "s", "t", "a", "t", "u", "s", ":", " ">>

StartErrorPrefix ==
    <<"E", "r", "r", "o", "r", " ", "s", "t", "a", "r", "t", "i", "n", "g", " ", "r", "e", "s", "e", "a", "r", "c", "h", ":", " ">>

FailedToStart ==
    <<"F", "a", "i", "l", "e", "d", " ", "t", "o", " ", "s", "t", "a", "r", "t", " ", "r", "e", "s", "e", "a", "r", "c", "h">>

HttpErrorPrefix ==
    <<"H", "T", "T", "P", " ", "e", "r", "r", "o", "r", "!", " ", "s", "t", "a", "t", "u", "s", ":", " ">>

\* the message of the error fetch() rejects with (network failure)
FailedToFetch ==
    <<"F", "a", "i", "l", "e", "d", " ", "t", "o", " ", "f", "e", "t", "c", "h">>

\* the message of the error response.json() rejects with (body is not JSON)
BadJson ==
    <<"U", "n", "e", "x", "p", "e", "c", "t", "e", "d", " ", "t", "o", "k", "e", "n">>

\* `${response.status}` of a non-2xx response
Http500 ==
    <<"5", "0", "0">>

\* ------------------------------------------------------------------ inputs
\* what the user can have typed into the textarea
Inputs ==
    { <<>>, <<" ", " ">>, <<" ", "q", " ">>, Rep("a", TitleLimit), Rep("b", TitleLimit + 1) }

\* ---------------------------------------------------------------- the state
VARIABLES
    chats,              \* App: the stored conversations, in storage order;
                        \* setChats(f) of useLocalStorage replaces it by f(chats)
    currentChatId,      \* App: id of the active conversation, or NULL
    now,                \* the clock Date.now() and new Date() read
    input,              \* Chat: content of the textarea
    isResearching,      \* Chat: the in-flight flag
    researchProgress,   \* Chat: the progress text
    jobs,               \* the accepted submissions, oldest first: one record
                        \* for the run of handleSubmit and its poller
    nextId              \* number of message ids generateId() has handed out

vars == <<chats, currentChatId, now, input, isResearching, researchProgress, jobs, nextId>>

\* `chat-${Date.now()}`
ChatIdAt(t) == <<"chat-", t>>

\* what find returns when nothing matches
Undefined ==
    [id |-> NULL, title |-> <<>>, messages |-> <<>>, createdAt |-> 0, updatedAt |-> 0]

IsUndefined(chat) == chat.id = NULL

\* Array.prototype.find(c => c.id === id): the first match, or undefined
RECURSIVE FindChat(_, _)
FindChat(cs, id) ==
    IF cs = <<>> THEN Undefined
    ELSE IF Head(cs).id = id THEN Head(cs) ELSE FindChat(Tail(cs), id)

\* Array.prototype.filter(chat => chat.id !== id)
RECURSIVE WithoutChat(_, _)
WithoutChat(cs, id) ==
    IF cs = <<>> THEN <<>>
    ELSE IF Head(cs).id = id THEN WithoutChat(Tail(cs), id)
         ELSE <<Head(cs)>> \o WithoutChat(Tail(cs), id)

\* const currentChat = chats.find(chat => chat.id === currentChatId)
CurrentChat == FindChat(chats, currentChatId)

\* the chat object createNewChat builds at clock reading t
NewChat(t) ==
    [id |-> ChatIdAt(t), title |-> NewChatTitle, messages |-> <<>>,
     createdAt |-> t, updatedAt |-> t]

\* UpdateChat that leaves updatedAt as it was
UpdateChat_NoTouch(prev, chatId, updates, t) ==
    [i \in 1..Len(prev) |->
        IF prev[i].id = chatId
        THEN [prev[i] EXCEPT !.messages = updates.messages,
                             !.title = updates.title]
        ELSE prev[i]]

\* the updater of updateChat applied to the stored array prev:
\* prev.map(chat => chat.id === chatId ? {...chat, ...updates, updatedAt: new Date()} : chat)
UpdateChat(prev, chatId, updates, t) ==
    [i \in 1..Len(prev) |->
        IF prev[i].id = chatId
        THEN [prev[i] EXCEPT !.messages = updates.messages,
                             !.title = updates.title,
                             !.updatedAt = t]
        ELSE prev[i]]

\* DerivedTitle with the ellipsis test off by one (length >= 50)
DerivedTitle_Ge(chat, message) ==
    IF Len(chat.messages) = 0 /\ message.role = "user"
    THEN Slice0(message.content, TitleLimit)
            \o (IF Len(message.content) >= TitleLimit THEN Ellipsis ELSE <<>>)
    ELSE chat.title

\* title of a conversation after message is appended to chat
DerivedTitle(chat, message) ==
    IF Len(chat.messages) = 0 /\ message.role = "user"
    THEN Slice0(message.content, TitleLimit)
            \o (IF Len(message.content) > TitleLimit THEN Ellipsis ELSE <<>>)
    ELSE chat.title

\* addMessage of the render whose `chats` was seen, acting on the stored
\* array prev: the conversation is looked up in seen, the new message list
\* and title are computed from it, and updateChat writes both into prev
AddMessage(seen, prev, chatId, message, t) ==
    LET chat == FindChat(seen, chatId) IN
    IF IsUndefined(chat) THEN prev
    ELSE UpdateChat(prev, chatId,
                    [messages |-> Append(chat.messages, message),
                     title |-> DerivedTitle(chat, message)], t)

\* generateId() of lib/utils: the n-th call returns an id no earlier call
\* returned
GenerateId(n) == <<"msg-", n>>

\* a Message object, the n-th one built
NewMessage(n, role, content, t) ==
    [id |-> GenerateId(n), role |-> role, content |-> content, createdAt |-> t]

\* the useEffect of App has something to do
EffectPending == chats = <<>> \/ currentChatId = NULL

\* no handler is in the middle of a run: a handler runs to its next await
\* or to its return before anything else is dispatched
Quiescent == \A j \in 1..Len(jobs) : jobs[j].pc \notin {"submitted", "done"}

Init ==
    /\ chats = <<>>
    /\ currentChatId = NULL
    /\ now = 0
    /\ input = <<>>
    /\ isResearching = FALSE
    /\ researchProgress = <<>>
    /\ jobs = <<>>
    /\ nextId = 0

\* ------------------------------------------------------ conversation manager
\* DoCreateNewChat putting the new conversation at the end of the array
DoCreateNewChat_Append ==
    /\ chats' = chats \o <<NewChat(now)>>
    /\ currentChatId' = ChatIdAt(now)

\* createNewChat: setChats(prev => [newChat, ...prev]); setCurrentChatId(newChat.id)
DoCreateNewChat ==
    /\ chats' = <<NewChat(now)>> \o chats
    /\ currentChatId' = ChatIdAt(now)

\* the "+" button of the sidebar
CreateNewChat ==
    /\ Quiescent /\ ~EffectPending
    /\ Len(chats) < MaxChats
    /\ DoCreateNewChat
    /\ UNCHANGED <<now, input, isResearching, researchProgress, jobs, nextId>>

\* a click on a listed conversation: onSelectChat(chat.id)
SelectChat(i) ==
    /\ Quiescent /\ ~EffectPending
    /\ currentChatId' = chats[i].id
    /\ currentChatId' # currentChatId
    /\ UNCHANGED <<chats, now, input, isResearching, researchProgress, jobs, nextId>>

\* DoDeleteChat that never clears currentChatId
DoDeleteChat_KeepsPointer(chatId) ==
    /\ chats' = WithoutChat(chats, chatId)
    /\ currentChatId' = currentChatId

\* deleteChat(chatId)
DoDeleteChat(chatId) ==
    /\ chats' = WithoutChat(chats, chatId)
    /\ currentChatId' = IF currentChatId = chatId THEN NULL ELSE currentChatId

\* the delete button of a listed conversation, rendered while chats.length > 1
DeleteChat(i) ==
    /\ Quiescent /\ ~EffectPending
    /\ Len(chats) > 1
    /\ DoDeleteChat(chats[i].id)
    /\ UNCHANGED <<now, input, isResearching, researchProgress, jobs, nextId>>

\* AppEffect that creates a conversation whenever none is selected
AppEffect_Recreate ==
    /\ Quiescent
    /\ EffectPending
    /\ IF Len(chats) = 0 \/ currentChatId = NULL
       THEN DoCreateNewChat
       ELSE /\ currentChatId' = chats[1].id
            /\ UNCHANGED chats
    /\ UNCHANGED <<now, input, isResearching, researchProgress, jobs, nextId>>

\* AppEffect without its second branch: nothing is selected when the
\* collection is not empty
AppEffect_OnlyCreate ==
    /\ Quiescent
    /\ EffectPending
    /\ IF Len(chats) = 0
       THEN DoCreateNewChat
       ELSE UNCHANGED <<chats, currentChatId>>
    /\ UNCHANGED <<now, input, isResearching, researchProgress, jobs, nextId>>

\* the effect of App, run after a render in which chats.length or
\* currentChatId changed
AppEffect ==
    /\ Quiescent
    /\ EffectPending
    /\ IF Len(chats) = 0
       THEN DoCreateNewChat
       ELSE /\ currentChatId' = chats[1].id
            /\ UNCHANGED chats
    /\ UNCHANGED <<now, input, isResearching, researchProgress, jobs, nextId>>

\* time passes
Tick ==
    /\ Quiescent
    /\ now < MaxClock
    /\ now' = now + 1
    /\ UNCHANGED <<chats, currentChatId, input, isResearching, researchProgress, jobs, nextId>>

\* typing: onChange of the textarea, which is disabled while isResearching
SetInput(v) ==
    /\ Quiescent
    /\ ~isResearching
    /\ v # input
    /\ input' = v
    /\ UNCHANGED <<chats, currentChatId, now, isResearching, researchProgress, jobs, nextId>>

\* ------------------------------------------------------ the research service
\* optional text fields of a response: <<>> when absent or empty
JobIdText == <<"j", "1">>
MessageText == <<"b", "u", "s", "y">>
ProgressText == <<"4", "0", "%">>
ResultText == <<"X">>
ErrorText == <<"o", "o", "m">>

\* outcomes of POST /research/async: fetch rejects, a non-2xx response, a
\* body that is not JSON, or a JSON body {status, job_id?, message?}
StartResponses ==
    { [kind |-> k, status |-> "", job_id |-> <<>>, message |-> <<>>] :
        k \in {"reject", "http", "badjson"} }
    \cup
    { [kind |-> "json", status |-> s, job_id |-> i, message |-> m] :
        s \in {"pending", "error"}, i \in {<<>>, JobIdText}, m \in {<<>>, MessageText} }

\* outcomes of GET /research/status/{jobId}
StatusResponses ==
    { [kind |-> k, status |-> "", progress |-> <<>>, result |-> <<>>, error |-> <<>>] :
        k \in {"reject", "http", "badjson"} }
    \cup
    { [kind |-> "json", status |-> s, progress |-> p, result |-> <<>>, error |-> <<>>] :
        s \in {"pending", "in_progress", "queued"}, p \in {<<>>, ProgressText} }
    \cup
    { [kind |-> "json", status |-> "completed", progress |-> p, result |-> x, error |-> <<>>] :
        p \in {<<>>, ProgressText}, x \in {<<>>, ResultText} }
    \cup
    { [kind |-> "json", status |-> "failed", progress |-> <<>>, result |-> <<>>, error |-> e] :
        e \in {<<>>, ErrorText} }

\* error.message of what the try block throws for a response that is not
\* usable: fetch's rejection, `HTTP error! status: ${response.status}`, or
\* the rejection of response.json()
TransportError(r) ==
    IF r.kind = "reject" THEN FailedToFetch
    ELSE IF r.kind = "http" THEN HttpErrorPrefix \o Http500
    ELSE BadJson

\* ------------------------------------------------------- submission controller
\* SubmitGuard testing the raw input instead of the trimmed one
SubmitGuard_NoTrim(inp, chat, researching) ==
    /\ inp # <<>>
    /\ ~IsUndefined(chat)
    /\ ~researching

\* the condition under which handleSubmit goes on: the negation of
\* !input.trim() || !chat || isResearching
SubmitGuard(inp, chat, researching) ==
    /\ Trim(inp) # <<>>
    /\ ~IsUndefined(chat)
    /\ ~researching

\* the local `status` of poll() before a response has been read
NoStatus ==
    [kind |-> "none", status |-> "", progress |-> <<>>, result |-> <<>>, error |-> <<>>]

\* the record of one run of handleSubmit: the values its closure holds
\* (chatId = chat.id, seen = the chats array onAddMessage reads, input),
\* the locals of pollResearchStatus and poll (jobId, attempts, and status
\* for as long as the invocation of poll that read it lasts), and what the
\* run has done so far (requests issued, terminal messages passed to onAddMessage)
NewJob(chat, seen, inp) ==
    [pc |-> "submitted", chatId |-> chat.id, seen |-> seen, input |-> inp,
     jobId |-> <<>>, attempts |-> 0, status |-> NoStatus,
     nStart |-> 0, startQuery |-> <<>>, nFetch |-> 0,
     terminals |-> 0, outcome |-> "none"]

\* UserMessage carrying the raw input
UserMessage_NoTrim(inp, id, t) == NewMessage(id, "user", inp, t)

\* the user message handleSubmit builds
UserMessage(inp, id, t) == NewMessage(id, "user", Trim(inp), t)

\* number of runs of handleSubmit that have returned
NumReturned == Cardinality({j \in 1..Len(jobs) : jobs[j].pc = "returned"})

\* HandleSubmit without setIsResearching(true)
HandleSubmit_NoFlag ==
    /\ Quiescent
    /\ IF ~SubmitGuard(input, CurrentChat, isResearching)
       THEN UNCHANGED vars
       ELSE /\ NumReturned < MaxSubmits /\ Len(jobs) <= MaxSubmits
            /\ chats' = AddMessage(chats, chats, CurrentChat.id,
                                   UserMessage(input, nextId, now), now)
            /\ nextId' = nextId + 1
            /\ input' = <<>>
            /\ researchProgress' = StartingText
            /\ jobs' = Append(jobs, NewJob(CurrentChat, chats, input))
            /\ UNCHANGED <<currentChatId, now, isResearching>>

\* handleSubmit up to the try block: validation, the user message, the
\* in-flight flag and the first progress text
HandleSubmit ==
    /\ Quiescent
    /\ IF ~SubmitGuard(input, CurrentChat, isResearching)
       THEN UNCHANGED vars
       ELSE /\ NumReturned < MaxSubmits /\ Len(jobs) <= MaxSubmits
            /\ chats' = AddMessage(chats, chats, CurrentChat.id,
                                   UserMessage(input, nextId, now), now)
            /\ nextId' = nextId + 1
            /\ input' = <<>>
            /\ isResearching' = TRUE
            /\ researchProgress' = StartingText
            /\ jobs' = Append(jobs, NewJob(CurrentChat, chats, input))
            /\ UNCHANGED <<currentChatId, now>>

\* body: JSON.stringify({ query: input.trim() })
QueryOf(job) == Trim(job.input)

\* fetch('/research/async', ...) is called: the job-start request goes out
StartRequest(j) ==
    /\ jobs[j].pc = "submitted"
    /\ jobs' = [jobs EXCEPT ![j] = [@ EXCEPT !.pc = "starting",
                                            !.nStart = @ + 1,
                                            !.startQuery = QueryOf(jobs[j])]]
    /\ UNCHANGED <<chats, currentChatId, now, input, isResearching, researchProgress, nextId>>

\* Terminal without setIsResearching(false)
Terminal_KeepsFlag(j, job, outcome, content) ==
    /\ chats' = AddMessage(job.seen, chats, job.chatId,
                           NewMessage(nextId, "assistant", content, now), now)
    /\ nextId' = nextId + 1
    /\ researchProgress' = <<>>
    /\ jobs' = [jobs EXCEPT ![j] = [job EXCEPT !.pc = "done",
                                              !.outcome = outcome,
                                              !.terminals = @ + 1]]
    /\ UNCHANGED <<currentChatId, now, input, isResearching>>

\* Terminal without setResearchProgress('')
Terminal_KeepsProgress(j, job, outcome, content) ==
    /\ chats' = AddMessage(job.seen, chats, job.chatId,
                           NewMessage(nextId, "assistant", content, now), now)
    /\ nextId' = nextId + 1
    /\ isResearching' = FALSE
    /\ jobs' = [jobs EXCEPT ![j] = [job EXCEPT !.pc = "done",
                                              !.outcome = outcome,
                                              !.terminals = @ + 1]]
    /\ UNCHANGED <<currentChatId, now, input, researchProgress>>

\* a terminal branch: the assistant message goes to the onAddMessage the
\* run captured, then setIsResearching(false), setResearchProgress('')
Terminal(j, job, outcome, content) ==
    /\ chats' = AddMessage(job.seen, chats, job.chatId,
                           NewMessage(nextId, "assistant", content, now), now)
    /\ nextId' = nextId + 1
    /\ isResearching' = FALSE
    /\ researchProgress' = <<>>
    /\ jobs' = [jobs EXCEPT ![j] = [job EXCEPT !.pc = "done",
                                              !.outcome = outcome,
                                              !.terminals = @ + 1]]
    /\ UNCHANGED <<currentChatId, now, input>>

\* PollEntry with the budget test off by one (attempts > maxAttempts)
PollEntry_Gt(j, job) ==
    IF job.attempts > maxAttempts
    THEN Terminal(j, job, "timeout", TimeoutText)
    ELSE /\ jobs' = [jobs EXCEPT ![j] = [job EXCEPT !.pc = "fetching",
                                                   !.nFetch = @ + 1]]
         /\ UNCHANGED <<chats, currentChatId, now, input, isResearching,
                        researchProgress, nextId>>

\* entry of poll(): the attempt budget is checked, then the status is fetched
PollEntry(j, job) ==
    IF job.attempts >= maxAttempts
    THEN Terminal(j, job, "timeout", TimeoutText)
    ELSE /\ jobs' = [jobs EXCEPT ![j] = [job EXCEPT !.pc = "fetching",
                                                   !.nFetch = @ + 1]]
         /\ UNCHANGED <<chats, currentChatId, now, input, isResearching,
                        researchProgress, nextId>>

\* StartAccepted without the test of data.job_id
StartAccepted_NoJobId(r) == r.kind = "json" /\ r.status = "pending"

\* the job-start response is usable: data.status === 'pending' && data.job_id
StartAccepted(r) == r.kind = "json" /\ r.status = "pending" /\ r.job_id # <<>>

\* error.message in the catch block of handleSubmit
StartError(r) ==
    IF r.kind = "json" THEN OrElse(r.message, FailedToStart) ELSE TransportError(r)

\* the job-start request settles: handleSubmit resumes after its await
StartResponse(j, r) ==
    /\ Quiescent
    /\ jobs[j].pc = "starting"
    /\ IF StartAccepted(r)
       THEN PollEntry(j, [jobs[j] EXCEPT !.jobId = r.job_id, !.attempts = 0])
       ELSE Terminal(j, jobs[j], "startError", StartErrorPrefix \o StartError(r))

\* ------------------------------------------------------------------ job poller
\* StatusResponse whose completed branch does not return: it goes on to
\* attempts++ and setTimeout(poll, 1000)
StatusResponse_NoReturn(j, r) ==
    /\ Quiescent
    /\ jobs[j].pc = "fetching"
    /\ IF r.kind # "json"
       THEN Terminal(j, jobs[j], "transportError", StatusErrorPrefix \o TransportError(r))
       ELSE IF r.status = "completed"
       THEN /\ chats' = AddMessage(jobs[j].seen, chats, jobs[j].chatId,
                        NewMessage(nextId, "assistant",
                                   OrElse(r.result, NoReportText), now), now)
            /\ nextId' = nextId + 1
            /\ isResearching' = FALSE
            /\ researchProgress' = <<>>
            /\ jobs' = [jobs EXCEPT ![j] = [@ EXCEPT !.pc = "waiting",
                                                    !.outcome = "completed",
                                                    !.terminals = @ + 1,
                                                    !.attempts = @ + 1]]
            /\ UNCHANGED <<currentChatId, now, input>>
       ELSE IF r.status = "failed"
       THEN Terminal(j, [jobs[j] EXCEPT !.status = r], "failed",
                     ResearchFailedPrefix \o OrElse(r.error, UnknownErrorOccurred))
       ELSE /\ researchProgress' = OrElse(r.progress, ResearchingText)
            /\ jobs' = [jobs EXCEPT ![j] = [@ EXCEPT !.pc = "waiting",
                                                    !.attempts = @ + 1]]
            /\ UNCHANGED <<chats, currentChatId, now, input, isResearching, nextId>>

\* StatusResponse that does not schedule the next check: no setTimeout(poll, 1000)
StatusResponse_NoTimer(j, r) ==
    /\ Quiescent
    /\ jobs[j].pc = "fetching"
    /\ IF r.kind # "json"
       THEN Terminal(j, jobs[j], "transportError", StatusErrorPrefix \o TransportError(r))
       ELSE IF r.status = "completed"
       THEN Terminal(j, [jobs[j] EXCEPT !.status = r], "completed",
                     OrElse(r.result, NoReportText))
       ELSE IF r.status = "failed"
       THEN Terminal(j, [jobs[j] EXCEPT !.status = r], "failed",
                     ResearchFailedPrefix \o OrElse(r.error, UnknownErrorOccurred))
       ELSE /\ researchProgress' = OrElse(r.progress, ResearchingText)
            /\ jobs' = [jobs EXCEPT ![j] = [@ EXCEPT !.pc = "unscheduled",
                                                    !.attempts = @ + 1]]
            /\ UNCHANGED <<chats, currentChatId, now, input, isResearching, nextId>>

\* StatusResponse whose catch block retries: a failed fetch counts as an
\* attempt and the next check is scheduled
StatusResponse_Retry(j, r) ==
    /\ Quiescent
    /\ jobs[j].pc = "fetching"
    /\ IF r.kind # "json"
       THEN /\ jobs' = [jobs EXCEPT ![j] = [@ EXCEPT !.pc = "waiting",
                                                    !.attempts = @ + 1]]
            /\ UNCHANGED <<chats, currentChatId, now, input, isResearching,
                           researchProgress, nextId>>
       ELSE IF r.status = "completed"
       THEN Terminal(j, [jobs[j] EXCEPT !.status = r], "completed",
                     OrElse(r.result, NoReportText))
       ELSE IF r.status = "failed"
       THEN Terminal(j, [jobs[j] EXCEPT !.status = r], "failed",
                     ResearchFailedPrefix \o OrElse(r.error, UnknownErrorOccurred))
       ELSE /\ researchProgress' = OrElse(r.progress, ResearchingText)
            /\ jobs' = [jobs EXCEPT ![j] = [@ EXCEPT !.pc = "waiting",
                                                    !.attempts = @ + 1]]
            /\ UNCHANGED <<chats, currentChatId, now, input, isResearching, nextId>>

\* StatusResponse without setResearchProgress(status.progress || 'Researching...')
StatusResponse_NoProgress(j, r) ==
    /\ Quiescent
    /\ jobs[j].pc = "fetching"
    /\ IF r.kind # "json"
       THEN Terminal(j, jobs[j], "transportError", StatusErrorPrefix \o TransportError(r))
       ELSE IF r.status = "completed"
       THEN Terminal(j, [jobs[j] EXCEPT !.status = r], "completed",
                     OrElse(r.result, NoReportText))
       ELSE IF r.status = "failed"
       THEN Terminal(j, [jobs[j] EXCEPT !.status = r], "failed",
                     ResearchFailedPrefix \o OrElse(r.error, UnknownErrorOccurred))
       ELSE /\ jobs' = [jobs EXCEPT ![j] = [@ EXCEPT !.pc = "waiting",
                                                    !.attempts = @ + 1]]
            /\ UNCHANGED <<chats, currentChatId, now, input, isResearching,
                           researchProgress, nextId>>

\* StatusResponse that treats every status it does not know as a failure
StatusResponse_RejectsUnknown(j, r) ==
    /\ Quiescent
    /\ jobs[j].pc = "fetching"
    /\ IF r.kind # "json"
       THEN Terminal(j, jobs[j], "transportError", StatusErrorPrefix \o TransportError(r))
       ELSE IF r.status = "completed"
       THEN Terminal(j, [jobs[j] EXCEPT !.status = r], "completed",
                     OrElse(r.result, NoReportText))
       ELSE IF r.status \notin {"pending", "in_progress"}
       THEN Terminal(j, [jobs[j] EXCEPT !.status = r], "failed",
                     ResearchFailedPrefix \o OrElse(r.error, UnknownErrorOccurred))
       ELSE /\ researchProgress' = OrElse(r.progress, ResearchingText)
            /\ jobs' = [jobs EXCEPT ![j] = [@ EXCEPT !.pc = "waiting",
                                                    !.attempts = @ + 1]]
            /\ UNCHANGED <<chats, currentChatId, now, input, isResearching, nextId>>

\* StatusResponse whose failed branch does not return: it goes on to
\* attempts++ and setTimeout(poll, 1000)
StatusResponse_FailedGoesOn(j, r) ==
    /\ Quiescent
    /\ jobs[j].pc = "fetching"
    /\ IF r.kind # "json"
       THEN Terminal(j, jobs[j], "transportError", StatusErrorPrefix \o TransportError(r))
       ELSE IF r.status = "completed"
       THEN Terminal(j, [jobs[j] EXCEPT !.status = r], "completed",
                     OrElse(r.result, NoReportText))
       ELSE IF r.status = "failed"
       THEN /\ chats' = AddMessage(jobs[j].seen, chats, jobs[j].chatId,
                        NewMessage(nextId, "assistant",
                                   ResearchFailedPrefix \o OrElse(r.error, UnknownErrorOccurred),
                                   now), now)
            /\ nextId' = nextId + 1
            /\ isResearching' = FALSE
            /\ researchProgress' = <<>>
            /\ jobs' = [jobs EXCEPT ![j] = [@ EXCEPT !.pc = "waiting",
                                                    !.outcome = "failed",
                                                    !.terminals = @ + 1,
                                                    !.attempts = @ + 1]]
            /\ UNCHANGED <<currentChatId, now, input>>
       ELSE /\ researchProgress' = OrElse(r.progress, ResearchingText)
            /\ jobs' = [jobs EXCEPT ![j] = [@ EXCEPT !.pc = "waiting",
                                                    !.attempts = @ + 1]]
            /\ UNCHANGED <<chats, currentChatId, now, input, isResearching, nextId>>

\* a status request settles: poll resumes after its await
StatusResponse(j, r) ==
    /\ Quiescent
    /\ jobs[j].pc = "fetching"
    /\ IF r.kind # "json"
       THEN Terminal(j, jobs[j], "transportError", StatusErrorPrefix \o TransportError(r))
       ELSE IF r.status = "completed"
       THEN Terminal(j, [jobs[j] EXCEPT !.status = r], "completed",
                     OrElse(r.result, NoReportText))
       ELSE IF r.status = "failed"
       THEN Terminal(j, [jobs[j] EXCEPT !.status = r], "failed",
                     ResearchFailedPrefix \o OrElse(r.error, UnknownErrorOccurred))
       ELSE /\ researchProgress' = OrElse(r.progress, ResearchingText)
            /\ jobs' = [jobs EXCEPT ![j] = [@ EXCEPT !.pc = "waiting",
                                                    !.attempts = @ + 1]]
            /\ UNCHANGED <<chats, currentChatId, now, input, isResearching, nextId>>

\* the timer of setTimeout(poll, 1000) fires
TimerFire(j) ==
    /\ Quiescent
    /\ jobs[j].pc = "waiting"
    /\ PollEntry(j, jobs[j])

\* the run has returned: its closure and the locals of pollResearchStatus
\* are gone, what is left is the record that it ran and how it ended
Return(j) ==
    /\ jobs[j].pc = "done"
    /\ jobs' = [jobs EXCEPT ![j] = [@ EXCEPT !.pc = "returned",
                                            !.seen = <<>>, !.input = <<>>,
                                            !.jobId = <<>>, !.attempts = 0,
                                            !.status = NoStatus,
                                            !.startQuery = <<>>, !.nFetch = 0]]
    /\ UNCHANGED <<chats, currentChatId, now, input, isResearching, researchProgress, nextId>>

\* --------------------------------------------------------------- specification
Next ==
    \/ AppEffect
    \/ CreateNewChat
    \/ \E i \in 1..Len(chats) : SelectChat(i)
    \/ \E i \in 1..Len(chats) : DeleteChat(i)
    \/ Tick
    \/ \E v \in Inputs : SetInput(v)
    \/ HandleSubmit
    \/ \E j \in 1..Len(jobs) : StartRequest(j)
    \/ \E j \in 1..Len(jobs), r \in StartResponses : StartResponse(j, r)
    \/ \E j \in 1..Len(jobs), r \in StatusResponses : StatusResponse(j, r)
    \/ \E j \in 1..Len(jobs) : TimerFire(j)
    \/ \E j \in 1..Len(jobs) : Return(j)

Spec == Init /\ [][Next]_vars

\* the steps of a run of handleSubmit are taken as soon as they can be:
\* requests settle, timers fire
Fairness ==
    /\ WF_vars(\E j \in 1..Len(jobs) : StartRequest(j))
    /\ WF_vars(\E j \in 1..Len(jobs), r \in StartResponses : StartResponse(j, r))
    /\ WF_vars(\E j \in 1..Len(jobs), r \in StatusResponses : StatusResponse(j, r))
    /\ WF_vars(\E j \in 1..Len(jobs) : TimerFire(j))
    /\ WF_vars(\E j \in 1..Len(jobs) : Return(j))

LiveSpec == Init /\ [][Next]_vars /\ Fairness

\* React runs the effect of App after every render in which chats.length or
\* currentChatId changed
SettleSpec == Init /\ [][Next]_vars /\ Fairness /\ WF_vars(AppEffect)

\* ---------------------------------------------- the conversation manager alone
\* contents a caller of appendMessage passes
Contents == {Trim(v) : v \in Inputs} \ {<<>>}

\* onAddMessage(chats[i].id, message) called from the current render
AppendMessage(i, role, content) ==
    /\ ~EffectPending
    /\ nextId < MaxAppends
    /\ Len(chats[i].messages) < MaxMessages
    /\ chats' = AddMessage(chats, chats, chats[i].id,
                           NewMessage(nextId, role, content, now), now)
    /\ nextId' = nextId + 1
    /\ UNCHANGED <<currentChatId, now, input, isResearching, researchProgress, jobs>>

NextApi ==
    \/ AppEffect
    \/ CreateNewChat
    \/ \E i \in 1..Len(chats) : SelectChat(i)
    \/ \E i \in 1..Len(chats) : DeleteChat(i)
    \/ Tick
    \/ \E i \in 1..Len(chats), role \in {"user", "assistant"}, content \in Contents :
            AppendMessage(i, role, content)

SpecApi == Init /\ [][NextApi]_vars

\* ---- the conversation manager driven through its whole interface ----
\* createNewChat, deleteChat, addMessage and setCurrentChatId are handed to
\* Sidebar and Chat as props; here they are called with every id, listed or
\* not, over a longer clock and a larger collection

\* the ids createNewChat can have produced
StoreIds == {ChatIdAt(t) : t \in 0..MaxStoreClock}

\* createNewChat()
CreateChatStore ==
    /\ ~EffectPending
    /\ Len(chats) < MaxStored
    /\ DoCreateNewChat
    /\ UNCHANGED <<now, input, isResearching, researchProgress, jobs, nextId>>

\* onSelectChat(id) = setCurrentChatId(id), for any id
SelectId(id) ==
    /\ ~EffectPending
    /\ id # currentChatId
    /\ currentChatId' = id
    /\ UNCHANGED <<chats, now, input, isResearching, researchProgress, jobs, nextId>>

\* addMessage(id, message) of the current render, for any id
AppendTo(id, role, content) ==
    /\ ~EffectPending
    /\ nextId < MaxAppends
    /\ \A i \in 1..Len(chats) :
          chats[i].id = id => Len(chats[i].messages) < MaxMessages
    /\ chats' = AddMessage(chats, chats, id,
                           NewMessage(nextId, role, content, now), now)
    /\ nextId' = nextId + 1
    /\ UNCHANGED <<currentChatId, now, input, isResearching, researchProgress, jobs>>

\* time passes
TickStore ==
    /\ now < MaxStoreClock
    /\ now' = now + 1
    /\ UNCHANGED <<chats, currentChatId, input, isResearching, researchProgress,
                   jobs, nextId>>

NextStore ==
    \/ AppEffect
    \/ CreateChatStore
    \/ \E id \in StoreIds : SelectId(id)
    \/ \E i \in 1..Len(chats) : DeleteChat(i)
    \/ TickStore
    \/ \E id \in StoreIds, role \in {"user", "assistant"}, content \in Contents :
            AppendTo(id, role, content)

SpecStore == Init /\ [][NextStore]_vars

\* ======================================================================
\* Properties
\* ======================================================================
\* the step neither creates nor deletes a conversation
SameConversations ==
    /\ Len(chats') = Len(chats)
    /\ \A i \in 1..Len(chats) : chats'[i].id = chats[i].id

\* every message of old is in new, at its position, with its role and content
KeepsMessages(old, new) ==
    /\ Len(new) >= Len(old)
    /\ \A k \in 1..Len(old) :
          new[k].role = old[k].role /\ new[k].content = old[k].content

NumAssistant(ms) == Cardinality({k \in 1..Len(ms) : ms[k].role = "assistant"})

HasChat(cs, id) == ~IsUndefined(FindChat(cs, id))

Active(j) == jobs[j].pc \in {"submitted", "starting", "fetching", "waiting"}

\* C1: messages are append-only. In every step that neither creates nor
\* deletes a conversation, each message of each conversation stays at its
\* position with its role and content; in particular the terminal assistant
\* message does not replace the user message of its submission.
C1_AppendOnly ==
    [][SameConversations =>
          \A i \in 1..Len(chats) : KeepsMessages(chats[i].messages, chats'[i].messages)]_vars

\* C2: a submission that has run to its end has passed exactly one terminal
\* assistant message to onAddMessage, its outcome is one of the five terminal
\* kinds, the in-flight flag is false when it ends, and its conversation, if
\* still stored, holds exactly one assistant message more than when the
\* submission was made; a submission still in flight has passed none.
C2_OneTerminal ==
    \A j \in 1..Len(jobs) :
        /\ Active(j) => jobs[j].terminals = 0 /\ jobs[j].outcome = "none"
        /\ jobs[j].pc \in {"done", "returned"} =>
              /\ jobs[j].terminals = 1
              /\ jobs[j].outcome \in
                    {"completed", "failed", "timeout", "transportError", "startError"}
        /\ jobs[j].pc = "done" =>
              /\ ~isResearching
              /\ HasChat(chats, jobs[j].chatId) =>
                    NumAssistant(FindChat(chats, jobs[j].chatId).messages)
                      = NumAssistant(FindChat(jobs[j].seen, jobs[j].chatId).messages) + 1

\* C2 witness: a submission has timed out and its conversation is still stored
C2_Witness ==
    \E j \in 1..Len(jobs) :
        /\ jobs[j].pc = "done" /\ jobs[j].outcome = "timeout"
        /\ HasChat(chats, jobs[j].chatId)

\* C3: once a conversation holds a message, an append does not change its
\* title: in every step that leaves the set of conversations alone and
\* changes the messages of a conversation that held at least one, the title
\* of that conversation is unchanged.
C3_TitleStable ==
    [][SameConversations =>
          \A i \in 1..Len(chats) :
              (Len(chats[i].messages) >= 1 /\ chats'[i].messages # chats[i].messages)
                  => chats'[i].title = chats[i].title]_vars

\* C4: title derivation on the first message. In every step that puts the
\* first message into a conversation: a user message of at most 50 characters
\* becomes the title, a longer one gives its first 50 characters followed by
\* "...", and an assistant message leaves the title as it was.
C4_TitleDerivation ==
    [][SameConversations =>
          \A i \in 1..Len(chats) :
              (Len(chats[i].messages) = 0 /\ Len(chats'[i].messages) = 1) =>
                  LET m == chats'[i].messages[1] IN
                  /\ (m.role = "user" /\ Len(m.content) <= 50)
                        => chats'[i].title = m.content
                  /\ (m.role = "user" /\ Len(m.content) > 50)
                        => chats'[i].title = SubSeq(m.content, 1, 50) \o <<".", ".", ".">>
                  /\ m.role = "assistant" => chats'[i].title = chats[i].title]_vars

\* C4 witness: one conversation is titled by the first 50 characters of its
\* 51-character first user message plus "...", and another, whose first
\* message is from the assistant, still has the placeholder title
C4_Witness ==
    \E i \in 1..Len(chats), k \in 1..Len(chats) :
        /\ Len(chats[i].messages) >= 1
        /\ chats[i].messages[1].role = "user"
        /\ Len(chats[i].messages[1].content) = 51
        /\ Len(chats[i].title) = 53
        /\ Len(chats[k].messages) >= 1
        /\ chats[k].messages[1].role = "assistant"
        /\ chats[k].title = NewChatTitle

\* C5: while a job is in flight a call of submit changes no conversation and
\* starts nothing, whichever conversation is active; at most one job is being
\* started or polled, and the in-flight flag is true for as long as it is.
C5_OneJob ==
    /\ [][(isResearching /\ HandleSubmit) => UNCHANGED <<chats, jobs>>]_vars
    /\ [](Cardinality({j \in 1..Len(jobs) : Active(j)}) <= 1)
    /\ [](\A j \in 1..Len(jobs) : Active(j) => isResearching)

\* C5 witness: a job is being polled while another conversation than the
\* one it was submitted in is active
C5_Witness ==
    \E j \in 1..Len(jobs) :
        /\ jobs[j].pc = "fetching"
        /\ jobs[j].nFetch > 1
        /\ isResearching
        /\ ~IsUndefined(CurrentChat)
        /\ currentChatId # jobs[j].chatId

\* a call of submit is rejected in this state
RejectCase == Trim(input) = <<>> \/ IsUndefined(CurrentChat) \/ isResearching

Last(seq) == seq[Len(seq)]

\* C6: an accepted submit appends exactly one user message, whose content is
\* the trimmed input, to the active conversation and to no other, and does so
\* before the job-start request goes out: the step that issues the request
\* starts in a state where that message is already the last of the
\* conversation, and the query it sends is the content of that message.
C6_UserMessageFirst ==
    [][/\ (HandleSubmit /\ ~RejectCase) => Len(jobs') = Len(jobs) + 1
       /\ Len(jobs') > Len(jobs) =>
            LET j == Len(jobs')
                old == FindChat(chats, currentChatId)
                new == FindChat(chats', currentChatId)
            IN  /\ ~RejectCase
                /\ jobs'[j].pc = "submitted" /\ jobs'[j].nStart = 0
                /\ jobs'[j].chatId = currentChatId
                /\ Len(new.messages) = Len(old.messages) + 1
                /\ KeepsMessages(old.messages, new.messages)
                /\ Last(new.messages).role = "user"
                /\ Last(new.messages).content = Trim(input)
                /\ SameConversations
                /\ \A i \in 1..Len(chats) :
                      chats[i].id # currentChatId => chats'[i] = chats[i]
       /\ \A j \in 1..Len(jobs) :
            (Len(jobs') = Len(jobs) /\ jobs'[j].nStart > jobs[j].nStart) =>
                LET c == FindChat(chats, jobs[j].chatId)
                IN  /\ jobs[j].pc = "submitted" /\ jobs'[j].nStart = 1
                    /\ Len(c.messages) >= 1
                    /\ Last(c.messages).role = "user"
                    /\ jobs'[j].startQuery = Last(c.messages).content
                    /\ jobs'[j].startQuery # <<>>]_vars

\* C6 witness: the job-start request for the input " q " is out, with query "q"
C6_Witness ==
    \E j \in 1..Len(jobs) :
        /\ jobs[j].pc = "starting"
        /\ jobs[j].nStart = 1
        /\ jobs[j].input = <<" ", "q", " ">>
        /\ jobs[j].startQuery = <<"q">>

\* C7: the timeout outcome is reported when exactly 300 status fetches have
\* been issued and answered with a non-terminal status, never with fewer, and
\* no 301st fetch is issued: the k-th fetch is outstanding when attempts = k - 1.
C7_TimeoutAt300 ==
    \A j \in 1..Len(jobs) :
        /\ jobs[j].nFetch <= 300
        /\ jobs[j].pc = "fetching" => jobs[j].nFetch = jobs[j].attempts + 1
        /\ jobs[j].pc = "waiting" => jobs[j].nFetch = jobs[j].attempts
        /\ (jobs[j].pc = "done" /\ jobs[j].outcome = "timeout") =>
              jobs[j].nFetch = 300 /\ jobs[j].attempts = 300

\* C7 witness: a job has timed out
C7_Witness ==
    \E j \in 1..Len(jobs) :
        jobs[j].pc = "done" /\ jobs[j].outcome = "timeout" /\ jobs[j].nFetch = 300

\* C8: a job whose k-th status fetch (k <= 300) is the first to return
\* completed, after k - 1 non-terminal ones, ends there: k fetches were
\* issued, one assistant message was passed on, and in the conversation, if
\* still stored, the last message is that assistant message with the result
\* of the response as content.
C8_CompletedAtK ==
    \A j \in 1..Len(jobs) :
        jobs[j].outcome = "completed" =>
            /\ jobs[j].pc \in {"done", "returned"}
            /\ jobs[j].terminals = 1
            /\ jobs[j].pc = "done" =>
                  /\ jobs[j].status.status = "completed"
                  /\ jobs[j].nFetch = jobs[j].attempts + 1
                  /\ jobs[j].nFetch <= 300
                  /\ HasChat(chats, jobs[j].chatId) =>
                        LET c == FindChat(chats, jobs[j].chatId)
                        IN  /\ Last(c.messages).role = "assistant"
                            /\ jobs[j].status.result # <<>> =>
                                  Last(c.messages).content = jobs[j].status.result

\* C8 witness: completed with result X arrived on the 300th fetch
C8_Witness ==
    \E j \in 1..Len(jobs) :
        /\ jobs[j].pc = "done" /\ jobs[j].outcome = "completed"
        /\ jobs[j].nFetch = 300
        /\ jobs[j].status.result = ResultText
        /\ HasChat(chats, jobs[j].chatId)
        /\ Last(FindChat(chats, jobs[j].chatId).messages).content = ResultText

\* C9: every accepted submission terminates: if requests settle and timers
\* fire, the in-flight flag becomes false again; no job issues more than 300
\* status fetches; and a job that polled ends in a terminal status, a
\* transport error or the exhaustion of the attempt budget.
C9_Terminates ==
    /\ isResearching ~> ~isResearching
    /\ [](\A j \in 1..Len(jobs) :
            /\ jobs[j].nFetch <= 300
            /\ (jobs[j].pc = "done" /\ jobs[j].nFetch >= 1) =>
                  \/ jobs[j].outcome \in {"completed", "failed"}
                        /\ jobs[j].status.status = jobs[j].outcome
                  \/ jobs[j].outcome = "transportError"
                  \/ jobs[j].outcome = "timeout" /\ jobs[j].attempts = 300)

\* C9 witness: a submission that polled has ended on a transport error and
\* the flag is false
C9_Witness ==
    \E j \in 1..Len(jobs) :
        /\ jobs[j].pc = "returned" /\ jobs[j].outcome = "transportError"
        /\ ~isResearching

\* C10: from a state in which submit is rejected (input empty after
\* trimming, no active conversation, or a job in flight) no submission
\* begins, and a call of submit leaves the conversations, the active
\* pointer, the in-flight flag, the progress text and the jobs unchanged.
C10_RejectionNoOp ==
    [][RejectCase =>
          /\ Len(jobs') = Len(jobs)
          /\ HandleSubmit =>
                UNCHANGED <<chats, currentChatId, isResearching, researchProgress,
                            jobs, nextId>>]_vars

\* C10 witness: the input is white space only, a conversation is active and
\* no job is in flight
C10_Witness ==
    /\ input = <<" ", " ">>
    /\ ~IsUndefined(CurrentChat)
    /\ ~isResearching
    /\ jobs = <<>>

\* text starts with prefix
StartsWith(text, prefix) ==
    Len(text) >= Len(prefix) /\ SubSeq(text, 1, Len(prefix)) = prefix

\* C11: job-start failure. When the job-start request settles with a
\* transport failure or with anything but status "pending" together with a
\* non-empty job_id, that step passes one assistant message starting with
\* "Error starting research: " to onAddMessage, clears the in-flight flag and
\* the progress text and issues no status fetch; and a submission that ended
\* this way has never issued one.
C11_StartFailure ==
    /\ [][\A j \in 1..Len(jobs) : \A r \in StartResponses :
            (/\ StartResponse(j, r)
             /\ ~(r.kind = "json" /\ r.status = "pending" /\ r.job_id # <<>>)) =>
                /\ jobs'[j].pc = "done" /\ jobs'[j].outcome = "startError"
                /\ jobs'[j].terminals = 1 /\ jobs'[j].nFetch = 0
                /\ nextId' = nextId + 1
                /\ ~isResearching' /\ researchProgress' = <<>>
                /\ HasChat(chats', jobs[j].chatId) =>
                      LET m == Last(FindChat(chats', jobs[j].chatId).messages)
                      IN  /\ m.role = "assistant"
                          /\ StartsWith(m.content, StartErrorPrefix)
                          /\ Len(m.content) > Len(StartErrorPrefix)]_vars
    /\ [](\A j \in 1..Len(jobs) :
            jobs[j].outcome = "startError" =>
                /\ jobs[j].pc \in {"done", "returned"}
                /\ jobs[j].nFetch = 0 /\ jobs[j].terminals = 1)

\* C11 witness: a submission has ended on "Failed to start research" (status
\* not pending, or job_id missing, and no message in the response)
C11_Witness ==
    \E j \in 1..Len(jobs) :
        /\ jobs[j].pc = "done" /\ jobs[j].outcome = "startError"
        /\ HasChat(chats, jobs[j].chatId)
        /\ Last(FindChat(chats, jobs[j].chatId).messages).content
              = StartErrorPrefix \o FailedToStart

\* C12: polling transport failure. When a status fetch fails (the request is
\* rejected, the response is not a success, or its body cannot be read),
\* that step passes one assistant message starting with "Error checking
\* research status: " to onAddMessage, ends the job without another fetch
\* and clears the in-flight flag and the progress text.
C12_PollFailure ==
    /\ [][\A j \in 1..Len(jobs) : \A r \in StatusResponses :
            (StatusResponse(j, r) /\ r.kind # "json") =>
                /\ jobs'[j].pc = "done" /\ jobs'[j].outcome = "transportError"
                /\ jobs'[j].terminals = 1
                /\ jobs'[j].nFetch = jobs[j].nFetch
                /\ jobs'[j].attempts = jobs[j].attempts
                /\ nextId' = nextId + 1
                /\ ~isResearching' /\ researchProgress' = <<>>
                /\ HasChat(chats', jobs[j].chatId) =>
                      LET m == Last(FindChat(chats', jobs[j].chatId).messages)
                      IN  /\ m.role = "assistant"
                          /\ StartsWith(m.content, StatusErrorPrefix)]_vars
    /\ [](\A j \in 1..Len(jobs) :
            jobs[j].outcome = "transportError" =>
                jobs[j].pc \in {"done", "returned"} /\ jobs[j].terminals = 1)

\* C12 witness: the third status fetch of a job failed and the job is over
C12_Witness ==
    \E j \in 1..Len(jobs) :
        /\ jobs[j].pc = "done" /\ jobs[j].outcome = "transportError"
        /\ jobs[j].nFetch = 3 /\ jobs[j].attempts = 2
        /\ ~isResearching

\* C13: whenever the in-flight flag is false the progress text is empty, and
\* a submission that has just ended, whatever its outcome, leaves the flag
\* false and the progress text empty.
C13_Resubmittable ==
    /\ ~isResearching => researchProgress = <<>>
    /\ \A j \in 1..Len(jobs) :
          jobs[j].pc = "done" => ~isResearching /\ researchProgress = <<>>

\* C13 witness: after a job-reported failure the user has typed a new query
\* and submit would accept it
C13_Witness ==
    \E j \in 1..Len(jobs) :
        /\ jobs[j].pc = "returned" /\ jobs[j].outcome = "failed"
        /\ SubmitGuard(input, CurrentChat, isResearching)
        /\ researchProgress = <<>>

\* the conversations of cs whose id is not id, in their order
Others(cs, id) == SelectSeq(cs, LAMBDA c : c.id # id)

\* C14: deleting the conversation listed at position i leaves exactly the
\* conversations with another id, in their order; in that same step the
\* active pointer becomes empty if it named the deleted id and is unchanged
\* if it did not.
C14_DeleteFrame ==
    [][\A i \in 1..Len(chats) :
          DeleteChat(i) =>
              /\ ~HasChat(chats', chats[i].id)
              /\ chats' = Others(chats, chats[i].id)
              /\ currentChatId = chats[i].id => currentChatId' = NULL
              /\ currentChatId # chats[i].id => currentChatId' = currentChatId]_vars

\* C14 witness: the active conversation of three was deleted; two remain and
\* none is selected
C14_Witness ==
    /\ Len(chats) = 2
    /\ currentChatId = NULL
    /\ chats[1].id # chats[2].id

\* C15: a step that leaves the empty store leaves it with exactly one
\* conversation, empty, selected, and nothing further pending; and the
\* startup effect, evaluated on a non-empty store, never changes the
\* collection.
C15_StartupCreatesOne ==
    /\ [][(chats = <<>> /\ chats' # <<>>) =>
            /\ Len(chats') = 1
            /\ chats'[1].messages = <<>>
            /\ currentChatId' = chats'[1].id
            /\ ~EffectPending']_vars
    /\ [][(AppEffect /\ chats # <<>>) => chats' = chats]_vars

\* C15 witness: startup has settled on a fresh store: one empty conversation,
\* selected, nothing else has happened
C15_Witness ==
    /\ Len(chats) = 1
    /\ chats[1].messages = <<>>
    /\ currentChatId = chats[1].id
    /\ now = 0 /\ nextId = 0 /\ jobs = <<>> /\ input = <<>>

\* C16: when no conversation is selected and the collection is not empty,
\* the conversation the effect selects has the greatest updatedAt of the
\* collection.
C16_SelectsMostRecent ==
    [][(AppEffect /\ chats # <<>>) =>
          \A i \in 1..Len(chats) :
              FindChat(chats, currentChatId').updatedAt >= chats[i].updatedAt]_vars

\* C17: selecting an id sets the active pointer to it when a conversation
\* with that id is stored and leaves the pointer as it was when none is.
C17_SelectExisting ==
    [][\A id \in StoreIds :
          SelectId(id) =>
              currentChatId' = (IF HasChat(chats, id) THEN id ELSE currentChatId)]_vars

\* C18: appending to an id that no stored conversation has changes neither
\* the collection nor the active pointer; appending to a stored id puts the
\* message at the end of the list of the conversation found, makes it the
\* last message of every conversation with that id, sets their updatedAt to
\* the current time, which is not before the previous value nor before
\* createdAt, and leaves the other conversations as they were.
C18_AppendLookup ==
    [][\A id \in StoreIds, role \in {"user", "assistant"}, content \in Contents :
          AppendTo(id, role, content) =>
              LET m == NewMessage(nextId, role, content, now) IN
              IF ~HasChat(chats, id)
              THEN chats' = chats /\ currentChatId' = currentChatId
              ELSE /\ Len(chats') = Len(chats)
                   /\ currentChatId' = currentChatId
                   /\ FindChat(chats', id).messages
                         = Append(FindChat(chats, id).messages, m)
                   /\ \A i \in 1..Len(chats) :
                         IF chats[i].id = id
                         THEN /\ chats'[i].id = id
                              /\ Last(chats'[i].messages) = m
                              /\ chats'[i].updatedAt = now
                              /\ chats'[i].updatedAt >= chats[i].updatedAt
                              /\ chats'[i].updatedAt >= chats'[i].createdAt
                              /\ chats'[i].createdAt = chats[i].createdAt
                         ELSE chats'[i] = chats[i]]_vars

\* C18 witness: two appends have been made; the one conversation stored was
\* created at time 0 and holds one message, received at time 2
C18_Witness ==
    /\ \E i \in 1..Len(chats) :
          /\ chats[i].createdAt = 0 /\ chats[i].updatedAt = 2
          /\ Len(chats[i].messages) = 1
    /\ nextId = 2
    /\ \A i \in 1..Len(chats) : Len(chats[i].messages) <= 1
    /\ Len(chats) = 1

\* C19: a step that makes the collection longer adds one conversation at the
\* front, with no message, the placeholder title and both timestamps equal
\* to the current time, leaves the conversations already stored behind it in
\* their order, and selects the new conversation.
C19_CreatePrepends ==
    [][Len(chats') > Len(chats) =>
          /\ Len(chats') = Len(chats) + 1
          /\ Tail(chats') = chats
          /\ chats'[1].messages = <<>>
          /\ chats'[1].title = NewChatTitle
          /\ chats'[1].createdAt = now /\ chats'[1].updatedAt = now
          /\ chats'[1].id = ChatIdAt(now)
          /\ currentChatId' = chats'[1].id]_vars

\* C19 witness: three conversations created at three times; the newest is at
\* the front, empty and selected, and the oldest, at the back, has a message
C19_Witness ==
    /\ Len(chats) = 3
    /\ chats[1].createdAt = 2 /\ chats[2].createdAt = 1 /\ chats[3].createdAt = 0
    /\ chats[1].messages = <<>>
    /\ chats[3].messages # <<>>
    /\ currentChatId = chats[1].id

\* C20: no two stored conversations have the same id.
C20_UniqueIds ==
    \A i, k \in 1..Len(chats) : i # k => chats[i].id # chats[k].id

\* C21: no stored message has empty content, whatever the service answered.
C21_NoEmptyContent ==
    \A i \in 1..Len(chats) : \A k \in 1..Len(chats[i].messages) :
        chats[i].messages[k].content # <<>>

\* C21 witness: a job reported completed without a result and the
\* placeholder text was stored in its place
C21_Witness ==
    \E j \in 1..Len(jobs) :
        /\ jobs[j].pc = "done" /\ jobs[j].outcome = "completed"
        /\ jobs[j].status.result = <<>>
        /\ HasChat(chats, jobs[j].chatId)
        /\ Last(FindChat(chats, jobs[j].chatId).messages).content = NoReportText

\* a status response the poller goes on after
NonTerminal(r) == r.kind = "json" /\ r.status \notin {"completed", "failed"}

C23_OtherStatusPolls ==
    [][\A j \in 1..Len(jobs) : \A r \in StatusResponses :
          (StatusResponse(j, r) /\ NonTerminal(r)) =>
              /\ jobs'[j].attempts = jobs[j].attempts + 1
              /\ jobs'[j].pc = "waiting"
              /\ jobs'[j].terminals = 0 /\ jobs'[j].outcome = "none"
              /\ chats' = chats /\ nextId' = nextId
              /\ isResearching /\ isResearching']_vars

\* C23 witness: two status responses have been read, neither terminal; the
\* job waits for its third check and the conversation ends with the query
C23_Witness ==
    \E j \in 1..Len(jobs) :
        /\ jobs[j].pc = "waiting" /\ jobs[j].attempts = 2
        /\ jobs[j].terminals = 0
        /\ isResearching
        /\ researchProgress = ResearchingText
        /\ HasChat(chats, jobs[j].chatId)
        /\ Last(FindChat(chats, jobs[j].chatId).messages).role = "user"

\* the error kind a message content tells, "none" when it tells none
ErrorKindOf(content) ==
    IF content = TimeoutText THEN "timeout"
    ELSE IF StartsWith(content, ResearchFailedPrefix) THEN "failed"
    ELSE IF StartsWith(content, StatusErrorPrefix) THEN "transportError"
    ELSE IF StartsWith(content, StartErrorPrefix) THEN "startError"
    ELSE "none"

\* the wordings of the four error kinds cannot be taken for one another
DistinctWordings ==
    LET P == {ResearchFailedPrefix, StatusErrorPrefix, StartErrorPrefix} IN
    /\ \A p, q \in P : p # q => ~StartsWith(p, q)
    /\ Cardinality(P) = 3
    /\ \A p \in P : ~StartsWith(TimeoutText, p)

\* C24: the content of the terminal message follows from the outcome:
\* completed gives the result or the placeholder, a failure the job reports
\* gives "Research failed: " and the error or its default, a failed status
\* fetch gives "Error checking research status: " and a diagnostic, a failed
\* job start gives "Error starting research: " and a description, a timeout
\* gives the fixed text; the four error wordings are pairwise distinct and
\* the error kind read back from the content is the outcome.
C24_ContentByOutcome ==
    /\ DistinctWordings
    /\ \A j \in 1..Len(jobs) :
          (jobs[j].pc = "done" /\ HasChat(chats, jobs[j].chatId)) =>
              LET c == Last(FindChat(chats, jobs[j].chatId).messages).content
                  o == jobs[j].outcome
              IN  /\ o = "completed" =>
                        c = (IF jobs[j].status.result = <<>> THEN NoReportText
                             ELSE jobs[j].status.result)
                  /\ o = "failed" =>
                        c = ResearchFailedPrefix \o
                              (IF jobs[j].status.error = <<>> THEN UnknownErrorOccurred
                               ELSE jobs[j].status.error)
                  /\ o = "timeout" => c = TimeoutText
                  /\ o = "transportError" =>
                        c \in {StatusErrorPrefix \o d :
                                  d \in {FailedToFetch, HttpErrorPrefix \o Http500, BadJson}}
                  /\ o = "startError" =>
                        c \in {StartErrorPrefix \o d :
                                  d \in {FailedToFetch, HttpErrorPrefix \o Http500, BadJson,
                                         FailedToStart, MessageText}}
                  /\ o # "completed" => ErrorKindOf(c) = o

\* C24 witness: a job reported failed without an error text and the message
\* reads "Research failed: Unknown error occurred"
C24_Witness ==
    \E j \in 1..Len(jobs) :
        /\ jobs[j].pc = "done" /\ jobs[j].outcome = "failed"
        /\ jobs[j].status.error = <<>>
        /\ HasChat(chats, jobs[j].chatId)
        /\ Last(FindChat(chats, jobs[j].chatId).messages).content
              = ResearchFailedPrefix \o UnknownErrorOccurred

\* C25: the status fetches of a job come one after the other and are at
\* most 300. A job has one status request outstanding or none; a fetch is
\* issued only by a job that has not ended and has no request outstanding,
\* after the job start or after a response that was not terminal; and once
\* a job has ended it issues no fetch, changes no progress text and appends
\* no message.
C25_SequentialBounded ==
    /\ [](\A j \in 1..Len(jobs) :
            /\ jobs[j].nFetch <= maxAttempts
            /\ jobs[j].pc = "fetching" =>
                  jobs[j].nFetch = jobs[j].attempts + 1 /\ jobs[j].terminals = 0
            /\ jobs[j].pc = "waiting" =>
                  jobs[j].nFetch = jobs[j].attempts /\ jobs[j].terminals = 0
            /\ jobs[j].pc \in {"done", "returned"} => jobs[j].terminals = 1)
    /\ [][\A j \in 1..Len(jobs) :
            /\ jobs'[j].nFetch > jobs[j].nFetch =>
                  /\ jobs[j].pc \in {"starting", "waiting"}
                  /\ jobs[j].terminals = 0
                  /\ jobs'[j].pc = "fetching"
                  /\ jobs'[j].nFetch = jobs[j].nFetch + 1
            /\ jobs[j].pc \in {"done", "returned"} =>
                  /\ jobs'[j].pc \in {"done", "returned"}
                  /\ jobs'[j].terminals = jobs[j].terminals
                  /\ jobs'[j].outcome = jobs[j].outcome
                  /\ jobs'[j].nFetch <= jobs[j].nFetch
            /\ jobs[j].pc = "done" =>
                  /\ chats' = chats /\ nextId' = nextId
                  /\ researchProgress' = researchProgress
                  /\ isResearching' = isResearching]_vars

\* C25 witness: the 300th status fetch of a job was answered "failed" and
\* the job is over
C25_Witness ==
    \E j \in 1..Len(jobs) :
        /\ jobs[j].pc = "done" /\ jobs[j].outcome = "failed"
        /\ jobs[j].nFetch = maxAttempts
        /\ jobs[j].terminals = 1

\* position of the conversation find() returns for id, 0 when there is none
IndexOf(cs, id) ==
    IF \E i \in 1..Len(cs) : cs[i].id = id
    THEN CHOOSE i \in 1..Len(cs) :
            cs[i].id = id /\ \A k \in 1..(i - 1) : cs[k].id # id
    ELSE 0

\* the step in which run j passes its terminal message to onAddMessage
TerminalStep(j) == Active(j) /\ jobs'[j].terminals > jobs[j].terminals

\* C26: the terminal message of a submission goes to the conversation that
\* was active when the submission was made and to no other: the step that
\* appends it leaves every other stored conversation as it was, whatever was
\* created or selected in the meantime; and a step that changes the active
\* pointer changes neither the in-flight flag nor the progress text.
C26_OwnConversationOnly ==
    [][/\ \A j \in 1..Len(jobs) :
             TerminalStep(j) =>
                 /\ Len(chats') = Len(chats)
                 /\ \A i \in 1..Len(chats) :
                       i # IndexOf(chats, jobs[j].chatId) => chats'[i] = chats[i]
       /\ (currentChatId' # currentChatId \/ Len(chats') > Len(chats)) =>
             /\ isResearching' = isResearching
             /\ researchProgress' = researchProgress]_vars

\* the conversation run j was submitted in is still stored: during the run
\* it is the one with the run's id that holds the user message
OriginStored(j) ==
    \E i \in 1..Len(chats) :
        chats[i].id = jobs[j].chatId /\ chats[i].messages # <<>>

\* C27: when the conversation a job was submitted in has been deleted, the
\* step that ends the job changes no stored conversation and clears the
\* in-flight flag and the progress text.
C27_DeletedOriginNoOp ==
    [][\A j \in 1..Len(jobs) :
          (TerminalStep(j) /\ ~OriginStored(j)) =>
              /\ chats' = chats
              /\ ~isResearching' /\ researchProgress' = <<>>]_vars

\* C28: in every conversation the messages at odd positions are the user's
\* and those at even positions the assistant's, so every assistant message
\* directly follows a user message.
C28_Alternation ==
    \A i \in 1..Len(chats) : \A k \in 1..Len(chats[i].messages) :
        chats[i].messages[k].role = (IF k % 2 = 1 THEN "user" ELSE "assistant")

\* the ids of the messages of conversation c
MessageIds(c) == {c.messages[k].id : k \in 1..Len(c.messages)}

\* C30: an append changes at most the conversation it is made to: every
\* other stored conversation keeps its messages, title and updatedAt, the
\* collection keeps its size and order, the active pointer stays; and no
\* message is held by two conversations.
C30_AppendFrame ==
    /\ [][\A id \in StoreIds, role \in {"user", "assistant"}, content \in Contents :
            AppendTo(id, role, content) =>
                /\ Len(chats') = Len(chats)
                /\ currentChatId' = currentChatId
                /\ \A i \in 1..Len(chats) :
                      /\ chats'[i].id = chats[i].id
                      /\ i # IndexOf(chats, id) => chats'[i] = chats[i]]_vars
    /\ [](\A i, k \in 1..Len(chats) :
            i # k => MessageIds(chats[i]) \cap MessageIds(chats[k]) = {})

\* C29: with the sidebar's create, select and delete, the program settles
\* with a conversation selected. Whenever the effect of App has nothing to
\* do the collection is not empty and the active pointer names a stored
\* conversation; a state with nothing stored or nothing selected is always
\* followed by one where this holds again; from no selection the pointer
\* goes to the first stored conversation, from an empty collection to a
\* single new one; and a conversation is only ever deleted while more than
\* one is stored.
C29_SettlesSelected ==
    /\ [](~EffectPending => (chats # <<>> /\ HasChat(chats, currentChatId)))
    /\ [][/\ (currentChatId = NULL /\ chats # <<>> /\ currentChatId' # NULL) =>
                (chats' = chats /\ currentChatId' = chats[1].id)
          /\ (chats = <<>> /\ chats' # <<>>) =>
                (Len(chats') = 1 /\ currentChatId' = chats'[1].id)
          /\ Len(chats') < Len(chats) => Len(chats) > 1]_vars
    /\ (EffectPending ~> ~EffectPending)

\* C29 witness: the active conversation of two was deleted; one is stored
\* and none is selected yet
C29_Witness ==
    /\ Len(chats) = 1
    /\ currentChatId = NULL
    /\ now = 1 /\ chats[1].createdAt = 0

====
